---- MODULE Spec2Model ----
(***************************************************************************)
(* Model of the BreezeAPI response-caching layer: the cache-aside          *)
(* middleware (cacheMiddleware), the shared store connection               *)
(* (initializeCache) and the duration parser (parseDuration).              *)
(*                                                                         *)
(* Strings are sequences of one-character strings, so that startsWith and  *)
(* the duration regex are computed character by character.                 *)
(***************************************************************************)
EXTENDS Integers, Sequences, FiniteSets, TLC

(***************************************************************************)
(* parseDuration (src/src/parseDuration.ts)                                *)
(***************************************************************************)

\* \d of the regex.
Digits == {"0", "1", "2", "3", "4", "5", "6", "7", "8", "9"}

\* One decimal digit's value, as parseInt(_, 10) reads it.
DigitVal(c) ==
    CASE c = "0" -> 0 [] c = "1" -> 1 [] c = "2" -> 2 [] c = "3" -> 3
      [] c = "4" -> 4 [] c = "5" -> 5 [] c = "6" -> 6 [] c = "7" -> 7
      [] c = "8" -> 8 [] c = "9" -> 9

\* \s of the regex (the blank and the tab are the white space the inputs use).
Spaces == {" ", "\t"}

\* The i flag of the regex and match[2].toLowerCase(), on the letters that
\* occur in a unit token.
ToLower(c) ==
    CASE c = "M" -> "m" [] c = "O" -> "o" [] c = "N" -> "n" [] c = "T" -> "t"
      [] c = "H" -> "h" [] c = "S" -> "s" [] c = "W" -> "w" [] c = "E" -> "e"
      [] c = "K" -> "k" [] c = "D" -> "d" [] c = "A" -> "a" [] c = "Y" -> "y"
      [] c = "U" -> "u" [] c = "R" -> "r" [] c = "I" -> "i" [] c = "C" -> "c"
      [] OTHER -> c

\* UnitAlternatives with the minute aliases written before the month ones.
UnitAlternativesMinuteFirst ==
    << <<"m">>, <<"m","i","n">>, <<"m","i","n","u","t","e">>,
       <<"m","i","n","u","t","e","s">>,
       <<"m","o">>, <<"m","o","n","t","h">>, <<"m","o","n","t","h","s">>,
       <<"w">>, <<"w","e","e","k">>, <<"w","e","e","k","s">>,
       <<"d">>, <<"d","a","y">>, <<"d","a","y","s">>,
       <<"h">>, <<"h","o","u","r">>, <<"h","o","u","r","s">>,
       <<"s">>, <<"s","e","c">>, <<"s","e","c","o","n","d">>,
       <<"s","e","c","o","n","d","s">> >>

\* The alternation of the regex, in the order it is written: the regex engine
\* takes the first alternative that matches at the position.
UnitAlternatives ==
    << <<"m","o">>, <<"m","o","n","t","h">>, <<"m","o","n","t","h","s">>,
       <<"w">>, <<"w","e","e","k">>, <<"w","e","e","k","s">>,
       <<"d">>, <<"d","a","y">>, <<"d","a","y","s">>,
       <<"h">>, <<"h","o","u","r">>, <<"h","o","u","r","s">>,
       <<"m">>, <<"m","i","n">>, <<"m","i","n","u","t","e">>,
       <<"m","i","n","u","t","e","s">>,
       <<"s">>, <<"s","e","c">>, <<"s","e","c","o","n","d">>,
       <<"s","e","c","o","n","d","s">> >>

\* Alternative p matches input at position i, ignoring case.
AltMatchesAt(p, input, i) ==
    /\ i + Len(p) - 1 <= Len(input)
    /\ \A k \in 1..Len(p) : ToLower(input[i + k - 1]) = p[k]

\* Index of the first alternative matching at i, 0 when none does.
FirstAlternative(input, i) ==
    LET hits == {a \in 1..Len(UnitAlternatives) :
                    AltMatchesAt(UnitAlternatives[a], input, i)}
    IN  IF hits = {} THEN 0
        ELSE CHOOSE a \in hits : \A b \in hits : a <= b

\* First position at or after i that holds no character of set cs.
RECURSIVE SkipWhile(_, _, _)
SkipWhile(input, i, cs) ==
    IF i <= Len(input) /\ input[i] \in cs
    THEN SkipWhile(input, i + 1, cs)
    ELSE i

\* parseInt(match[1], 10) of the digits input[i..j-1].
RECURSIVE ParseInt(_, _, _, _)
ParseInt(input, i, j, acc) ==
    IF i >= j THEN acc
    ELSE ParseInt(input, i + 1, j, acc * 10 + DigitVal(input[i]))

NoMatch == [found |-> FALSE, value |-> 0, unit |-> <<>>, lastIndex |-> 0]

\* regex.exec(input) with the g flag, searching from position i: the leftmost
\* match of (\d+)\s*(unit), with \d+ and \s* greedy.  When no unit follows
\* the digits and blanks, giving back digits or blanks cannot help (the unit
\* would have to start with a digit or a blank), so the search moves on.
RECURSIVE RegexExec(_, _)
RegexExec(input, i) ==
    IF i > Len(input) THEN NoMatch
    ELSE IF input[i] \in Digits
    THEN LET e == SkipWhile(input, i, Digits)
             u == SkipWhile(input, e, Spaces)
             a == FirstAlternative(input, u)
         IN  IF a # 0
             THEN [found |-> TRUE,
                   value |-> ParseInt(input, i, e, 0),
                   unit |-> UnitAlternatives[a],
                   lastIndex |-> u + Len(UnitAlternatives[a])]
             ELSE RegexExec(input, i + 1)
    ELSE RegexExec(input, i + 1)

\* A number of milliseconds, kept as whole seconds and the milliseconds left
\* over, because one month in milliseconds (2 592 000 000) does not fit the
\* model checker's integers.  The value is sec * 1000 + rem.
Millis(sec, rem) == [sec |-> sec + (rem \div 1000), rem |-> rem % 1000]

\* a + b on milliseconds.
MillisAdd(a, b) == Millis(a.sec + b.sec, a.rem + b.rem)

\* The switch on the unit: the milliseconds one match adds.
UnitMillis(value, unit) ==
    CASE unit \in {<<"m","o">>, <<"m","o","n","t","h">>, <<"m","o","n","t","h","s">>}
            -> Millis(value * 30 * 24 * 60 * 60, 0)
      [] unit \in {<<"w">>, <<"w","e","e","k">>, <<"w","e","e","k","s">>}
            -> Millis(value * 7 * 24 * 60 * 60, 0)
      [] unit \in {<<"d">>, <<"d","a","y">>, <<"d","a","y","s">>}
            -> Millis(value * 24 * 60 * 60, 0)
      [] unit \in {<<"h">>, <<"h","o","u","r">>, <<"h","o","u","r","s">>}
            -> Millis(value * 60 * 60, 0)
      [] unit \in {<<"m">>, <<"m","i","n">>, <<"m","i","n","u","t","e">>,
                   <<"m","i","n","u","t","e","s">>}
            -> Millis(value * 60, 0)
      [] unit \in {<<"s">>, <<"s","e","c">>, <<"s","e","c","o","n","d">>,
                   <<"s","e","c","o","n","d","s">>}
            -> Millis(value, 0)
      [] OTHER -> Millis(0, 0)

\* ParseLoop without the loop: the first match only.
ParseLoopOnce(input, i, ms) ==
    LET match == RegexExec(input, i)
    IN  IF ~match.found THEN ms
        ELSE MillisAdd(ms, UnitMillis(match.value, match.unit))

\* The while loop of parseDuration from position i with ms accumulated.
RECURSIVE ParseLoop(_, _, _)
ParseLoop(input, i, ms) ==
    LET match == RegexExec(input, i)
    IN  IF ~match.found THEN ms
        ELSE ParseLoop(input, match.lastIndex,
                       MillisAdd(ms, UnitMillis(match.value, match.unit)))

\* parseDuration(input): the total in milliseconds.
parseDuration(input) == ParseLoop(input, 1, Millis(0, 0))

\* Math.floor(ms / 1000).
FloorSeconds(ms) == ms.sec

(***************************************************************************)
(* Values                                                                  *)
(***************************************************************************)

\* null / undefined of the source.
Null == "null"
Undefined == "undefined"

\* The requests in flight; each is one invocation of the middleware function.
Requests == {"r1", "r2"}

\* The store URLs a configuration can name.
StoreUrls == {"redis://a", "redis://b"}

\* req.url of a request: one under the excluded prefix, one not.
UrlA == <<"/", "a">>
UrlX == <<"/", "x", "/", "a">>
RequestUrls == {UrlA, UrlX}
PrefixX == <<"/", "x">>

\* A custom cacheKey a route may configure.
CustomKey == <<"k">>

\* Every key of the store the model can name.
Keys == RequestUrls \cup {CustomKey}

\* The bodies a handler passes to res.json.
Bodies == {"b1", "b2"}

\* JSON.stringify(body): the text stored.
JsonStringify(body) == <<"json", body>>

\* A stored text that is not JSON.
CorruptText == <<"raw", "{oops">>
EmptyText == <<"raw", "">>

\* JSON.parse(text) succeeds.
JsonParses(text) == Len(text) = 2 /\ text[1] = "json"

\* JSON.parse(text), where it succeeds.
JsonParse(text) == text[2]

\* if (cached): null and the empty string are falsy.
Truthy(text) == text # <<>> /\ text # EmptyText

\* An entry of the store: the text under a key (<<>> when the key is absent)
\* and its time to live in seconds (-1: none set).  An entry whose ttl is 0
\* is one the store expires at once.
NoEntry == [value |-> <<>>, ttl |-> -1]

\* conf.duration: absent, a string or a number.
NoDuration == [type |-> "undefined", str |-> <<>>, num |-> 0]
StringDuration(s) == [type |-> "string", str |-> s, num |-> 0]

\* The per-route configurations passed to cacheMiddleware(conf).
\* cacheKey is <<>> when absent, else <<key>>.
Conf(en, key, dur) == [enabled |-> en, cacheKey |-> key, duration |-> dur]
Dur1h30m == StringDuration(<<"1", "h", "3", "0", "m">>)
Dur45Sec == StringDuration(<<"4", "5", " ", "S", "e", "c">>)
Confs ==
    { Conf(TRUE, <<>>, Dur1h30m),
      Conf(TRUE, <<>>, Dur45Sec),
      Conf(TRUE, <<CustomKey>>, Dur1h30m),
      Conf(FALSE, <<>>, Dur1h30m),
      Conf(TRUE, <<>>, NoDuration) }

\* A value of Config.get('breezeCache').  shapeOk is FALSE when a field other
\* than redisUrl has the wrong type, or the value is not an object at all;
\* redisUrl is "" when it is absent or not a URL.
Cfg(url, en, ex, ok) ==
    [redisUrl |-> url, enabled |-> en, excludedPaths |-> ex, shapeOk |-> ok]

ConfigValues ==
    { Cfg("redis://a", TRUE, <<>>, TRUE),
      Cfg("redis://a", TRUE, <<PrefixX>>, TRUE),
      Cfg("redis://a", FALSE, <<>>, TRUE),
      Cfg("redis://b", TRUE, <<>>, TRUE),
      Cfg("", TRUE, <<>>, TRUE),
      Cfg("redis://a", TRUE, <<>>, FALSE) }

\* Bounds of the model: initializeCache calls, and res.json calls of one
\* handler.
MaxInits == 2
MaxJsonCalls == 1

\* A handle names one RedisClient constructed: by whom (a request, or "init"
\* for initializeCache) and which of its clients it is.  For a request, 1 is
\* the client chosen at entry, 2 the one the retry creates.
NoHandle == [by |-> "none", n |-> 0]
Handle(by, n) == [by |-> by, n |-> n]

(***************************************************************************)
(* State                                                                   *)
(***************************************************************************)
VARIABLES
    cacheInitialized,   \* _cacheInitialized
    sharedRedisClient,  \* _sharedRedisClient: a handle, NoHandle for null
    sharedRedisUrl,     \* _sharedRedisUrl: a URL or Null
    inits,              \* clients initializeCache has constructed (bounded)
    clients,            \* every RedisClient constructed, by handle
    store,              \* the store behind each URL: key -> entry
    pc,                 \* where each request's middleware invocation is
    reqUrl,             \* req.url
    conf,               \* the conf the middleware was built with
    cfg,                \* the config the invocation read at entry
    client,             \* the closure's client: a handle, NoHandle before
    shouldCloseClient,  \* shouldCloseClient
    patched,            \* res.json has been replaced
    alreadyCached,      \* alreadyCached
    cacheHit,           \* cacheHit
    cacheHitValue,      \* cacheHitValue
    cached,             \* cached
    retried,            \* retried
    header,             \* the X-BREEZEAPI-CACHE header of the response
    responses,          \* what each res.json call of the handler returned
    hookPc,             \* where the running .cache() call is
    hookResp,           \* the response whose .cache() is running
    durationSeconds,    \* durationSeconds of the running .cache()
    nextCalls,          \* times the middleware called next()
    ops,                \* store operations the request issued, by kind
    failed,             \* some store operation of the request failed
    thrown,             \* a store error escaped the middleware or .cache()
    outcome,            \* how the lookup of the request ended
    cacheReturned,      \* the response the last finished .cache() returned
    manualPc,           \* where the request's setCache call is
    manualUrl,          \* redisUrl of the setCache call
    manualClient,       \* the client of the setCache call
    manualBody,         \* the body given to setCache
    manualSeconds,      \* durationSeconds of the setCache call
    parseA,             \* a duration string given to parseDuration
    parseB,             \* another one
    parsed              \* <<>>, or <<the results of parseDuration>>

vars == <<cacheInitialized, sharedRedisClient,
          sharedRedisUrl, inits, clients, store, pc, reqUrl, conf, cfg,
          client, shouldCloseClient, patched, alreadyCached, cacheHit,
          cacheHitValue, cached, retried, header, responses, hookPc, hookResp,
          durationSeconds, nextCalls, ops, failed, thrown, outcome,
          cacheReturned, manualPc, manualUrl, manualClient, manualBody,
          manualSeconds,
          parseA, parseB, parsed>>

\* Groups, for UNCHANGED.
vShared == <<sharedRedisClient, sharedRedisUrl, inits>>
vInput == <<reqUrl, conf, cfg>>
vFlags == <<alreadyCached, cacheHit, cacheHitValue, cached>>
vHandler == <<responses, hookPc, hookResp, durationSeconds, cacheReturned>>
vManual == <<manualPc, manualUrl, manualClient, manualBody, manualSeconds>>
vParse == <<parseA, parseB, parsed>>

NoOps == [opens |-> 0, gets |-> 0, sets |-> 0, expires |-> 0, closes |-> 0]

\* The state after the module is loaded, with the text the store holds for
\* UrlA behind "redis://a" given.
InitWith(texts) ==
    /\ cacheInitialized = FALSE
    /\ sharedRedisClient = NoHandle
    /\ sharedRedisUrl = Null
    /\ inits = 0
    /\ clients = <<>>
    /\ \E text \in texts :
          store = [u \in StoreUrls |-> [k \in Keys |->
                      IF u = "redis://a" /\ k = UrlA
                      THEN [value |-> text, ttl |-> IF text = <<>> THEN -1 ELSE 30]
                      ELSE NoEntry]]
    /\ pc = [r \in Requests |-> "start"]
    /\ reqUrl = [r \in Requests |-> UrlA]
    /\ conf = [r \in Requests |-> Conf(TRUE, <<>>, NoDuration)]
    /\ cfg = [r \in Requests |-> Cfg("", TRUE, <<>>, FALSE)]
    /\ client = [r \in Requests |-> NoHandle]
    /\ shouldCloseClient = [r \in Requests |-> FALSE]
    /\ patched = [r \in Requests |-> FALSE]
    /\ alreadyCached = [r \in Requests |-> FALSE]
    /\ cacheHit = [r \in Requests |-> FALSE]
    /\ cacheHitValue = [r \in Requests |-> Undefined]
    /\ cached = [r \in Requests |-> <<>>]
    /\ retried = [r \in Requests |-> FALSE]
    /\ header = [r \in Requests |-> ""]
    /\ responses = [r \in Requests |-> <<>>]
    /\ hookPc = [r \in Requests |-> "idle"]
    /\ hookResp = [r \in Requests |-> 0]
    /\ durationSeconds = [r \in Requests |-> 0]
    /\ nextCalls = [r \in Requests |-> 0]
    /\ ops = [r \in Requests |-> NoOps]
    /\ failed = [r \in Requests |-> FALSE]
    /\ thrown = [r \in Requests |-> FALSE]
    /\ outcome = [r \in Requests |-> "none"]
    /\ cacheReturned = [r \in Requests |-> 0]
    /\ manualPc = [r \in Requests |-> "idle"]
    /\ manualUrl = [r \in Requests |-> Null]
    /\ manualClient = [r \in Requests |-> NoHandle]
    /\ manualBody = [r \in Requests |-> Undefined]
    /\ manualSeconds = [r \in Requests |-> 0]

\* parseDuration has not been given anything.
NoParse == parseA = <<>> /\ parseB = <<>> /\ parsed = <<>>

\* The store starts without the entry, with a cached body, or with a text
\* that is not JSON.
Init == InitWith({<<>>, JsonStringify("b1"), CorruptText}) /\ NoParse

(***************************************************************************)
(* Helpers of the middleware                                               *)
(***************************************************************************)

\* z.string().url(): the text is a URL.
IsUrl(u) == u \in StoreUrls

\* breezeCacheConfigSchema.safeParse(BreezeConfig).success
SafeParseSuccess(c) == c.shapeOk /\ IsUrl(c.redisUrl)

\* s.startsWith(p)
StartsWith(s, p) == Len(p) <= Len(s) /\ SubSeq(s, 1, Len(p)) = p

\* IsExcluded with equality in place of startsWith.
IsExcludedExact(c, url) ==
    \E i \in 1..Len(c.excludedPaths) : url = c.excludedPaths[i]

\* excludedPaths && excludedPaths.some(path => req.url.startsWith(path))
IsExcluded(c, url) ==
    \E i \in 1..Len(c.excludedPaths) : StartsWith(url, c.excludedPaths[i])

\* The checks that end in `_cacheInitialized = false; return next()`.
ConfigRejected(c) ==
    \/ ~SafeParseSuccess(c)
    \/ c.redisUrl = ""
    \/ c.enabled = FALSE

\* Every check that ends in `return next()` before a client is chosen.
PassThrough(c, url) == ConfigRejected(c) \/ IsExcluded(c, url)

\* SharedMatches without the comparison of the URLs.
SharedMatchesAnyUrl(url) == sharedRedisClient # NoHandle

\* SharedMatches with the shared slot never used.
SharedMatchesNever(url) == FALSE

\* _sharedRedisClient && _sharedRedisUrl === redisUrl
SharedMatches(url) == sharedRedisClient # NoHandle /\ sharedRedisUrl = url

\* const cacheKey = req.url
CacheKey(r) == reqUrl[r]

\* new RedisClient(url) under handle h: the clients with it added.  owner is
\* the request the client was created for, or "shared" for a client put in
\* the shared slot.
WithNewClient(cs, h, url, owner) ==
    (h :> [url |-> url, owner |-> owner, closed |-> FALSE, closedBy |-> {}]) @@ cs

\* client.close() issued by `by` on handle h.  close() may throw (every call
\* site swallows it); the client is taken to be unusable afterwards either
\* way.
WithClose(cs, h, by) ==
    [cs EXCEPT ![h].closed = TRUE, ![h].closedBy = @ \cup {by}]

\* How a get / set / expire on handle h can end: a closed client rejects with
\* ERR_REDIS_CONNECTION_CLOSED; an open one may succeed, lose its connection,
\* or fail otherwise.
StoreOutcomes(h) ==
    IF clients[h].closed THEN {"closed"} ELSE {"ok", "closed", "other"}

\* DurationSecondsOf without the division by 1000.
DurationSecondsOfMillis(cf) ==
    IF cf.duration.type = "string"
    THEN parseDuration(cf.duration.str).sec * 1000
         + parseDuration(cf.duration.str).rem
    ELSE IF cf.duration.type = "number" THEN cf.duration.num
    ELSE 60

\* The durationSeconds computed by .cache().
DurationSecondsOf(cf) ==
    IF cf.duration.type = "string"
    THEN FloorSeconds(parseDuration(cf.duration.str))
    ELSE IF cf.duration.type = "number" THEN cf.duration.num
    ELSE 60

Count(f, r, kind) == [f EXCEPT ![r][kind] = @ + 1]

\* CallNext as a plain `return`: the middleware ends without next().
CallNextSkipped(r) ==
    /\ pc' = [pc EXCEPT ![r] = "returned"]
    /\ UNCHANGED nextCalls

\* return next(): the downstream handler is invoked.
CallNext(r) ==
    /\ pc' = [pc EXCEPT ![r] = "next"]
    /\ nextCalls' = [nextCalls EXCEPT ![r] = @ + 1]

\* The request awaits p; next() has not been called.
Await(r, p) ==
    /\ pc' = [pc EXCEPT ![r] = p]
    /\ UNCHANGED nextCalls

(***************************************************************************)
(* cacheMiddleware: one action per stretch of code between two awaits      *)
(***************************************************************************)

\* MwStart leaving res.json as it is: the wrapper is installed only after
\* the lookup, as in the earlier middleware.
MwStartUnpatched(r, url, cf, c) ==
    /\ pc[r] = "start"
    /\ LET pass == PassThrough(c, url)
           fresh == ~pass /\ ~SharedMatches(c.redisUrl)
       IN  /\ reqUrl' = [reqUrl EXCEPT ![r] = url]
           /\ conf' = [conf EXCEPT ![r] = cf]
           /\ cfg' = [cfg EXCEPT ![r] = c]
           /\ cacheInitialized' =
                 IF ConfigRejected(c) THEN FALSE
                 ELSE IF pass THEN cacheInitialized
                 ELSE TRUE
           /\ clients' = IF fresh
                         THEN WithNewClient(clients, Handle(r, 1), c.redisUrl, r)
                         ELSE clients
           /\ client' = [client EXCEPT ![r] =
                            IF pass THEN @
                            ELSE IF fresh THEN Handle(r, 1)
                            ELSE sharedRedisClient]
           /\ shouldCloseClient' = [shouldCloseClient EXCEPT ![r] = fresh]
           /\ ops' = IF fresh THEN Count(ops, r, "opens") ELSE ops
           /\ patched' = patched
           /\ outcome' = [outcome EXCEPT ![r] = IF pass THEN "pass" ELSE @]
           /\ IF pass THEN CallNext(r) ELSE Await(r, "get")
    /\ UNCHANGED <<vShared, store, vFlags, retried, header, vHandler,
                   failed, thrown,
                   vManual, vParse>>

\* Entry up to the first `await client.get(cacheKey)`: the config checks, the
\* choice of the client, and the patch of res.json.
MwStart(r, url, cf, c) ==
    /\ pc[r] = "start"
    /\ LET pass == PassThrough(c, url)
           fresh == ~pass /\ ~SharedMatches(c.redisUrl)
       IN  /\ reqUrl' = [reqUrl EXCEPT ![r] = url]
           /\ conf' = [conf EXCEPT ![r] = cf]
           /\ cfg' = [cfg EXCEPT ![r] = c]
           /\ cacheInitialized' =
                 IF ConfigRejected(c) THEN FALSE
                 ELSE IF pass THEN cacheInitialized
                 ELSE TRUE
           /\ clients' = IF fresh
                         THEN WithNewClient(clients, Handle(r, 1), c.redisUrl, r)
                         ELSE clients
           /\ client' = [client EXCEPT ![r] =
                            IF pass THEN @
                            ELSE IF fresh THEN Handle(r, 1)
                            ELSE sharedRedisClient]
           /\ shouldCloseClient' = [shouldCloseClient EXCEPT ![r] = fresh]
           /\ ops' = IF fresh THEN Count(ops, r, "opens") ELSE ops
           /\ patched' = [patched EXCEPT ![r] = ~pass]
           /\ outcome' = [outcome EXCEPT ![r] = IF pass THEN "pass" ELSE @]
           /\ IF pass THEN CallNext(r) ELSE Await(r, "get")
    /\ UNCHANGED <<vShared, store, vFlags, retried, header, vHandler,
                   failed, thrown,
                   vManual, vParse>>

\* The code after tryGetCache() returned true with `cached` set to value.
\* outcome records which case it was: a value that parses ("hit"), a value
\* that does not ("corrupt"), or none ("miss").
LookupDone(r, value) ==
    /\ outcome' = [outcome EXCEPT ![r] =
                      IF ~Truthy(value) THEN "miss"
                      ELSE IF JsonParses(value) THEN "hit" ELSE "corrupt"]
    /\ cached' = [cached EXCEPT ![r] = value]
    /\ alreadyCached' = [alreadyCached EXCEPT ![r] = @ \/ Truthy(value)]
    /\ cacheHit' = [cacheHit EXCEPT ![r] = @ \/ Truthy(value)]
    /\ cacheHitValue' = [cacheHitValue EXCEPT ![r] =
                            IF Truthy(value) /\ JsonParses(value)
                            THEN JsonParse(value) ELSE @]
    /\ header' = [header EXCEPT ![r] =
                     IF Truthy(value) /\ JsonParses(value) THEN "HIT" ELSE @]
    /\ IF Truthy(value) /\ JsonParses(value) /\ shouldCloseClient[r]
       THEN Await(r, "hitClose")
       ELSE CallNext(r)

\* LookupFailed closing whatever client the request used.
LookupFailedAlwaysCloses(r) ==
    /\ outcome' = [outcome EXCEPT ![r] = "failed"]
    /\ Await(r, "failClose")
    /\ UNCHANGED <<vFlags, header>>

\* The code after tryGetCache() returned false.
LookupFailed(r) ==
    /\ outcome' = [outcome EXCEPT ![r] = "failed"]
    /\ IF shouldCloseClient[r] THEN Await(r, "failClose") ELSE CallNext(r)
    /\ UNCHANGED <<vFlags, header>>

\* The first client.get resolves.
MwGetOk(r) ==
    /\ pc[r] = "get"
    /\ "ok" \in StoreOutcomes(client[r])
    /\ LookupDone(r, store[clients[client[r]].url][CacheKey(r)].value)
    /\ ops' = Count(ops, r, "gets")
    /\ UNCHANGED <<cacheInitialized, vShared, clients, store, vInput,
                   client, shouldCloseClient, patched, retried, vHandler,
                   failed, thrown,
                   vManual, vParse>>

\* MwGetConnectionClosed reopening the shared client whatever URL the slot
\* records.
MwGetConnectionClosedAnySlot(r) ==
    /\ pc[r] = "get"
    /\ "closed" \in StoreOutcomes(client[r])
    /\ ~retried[r]
    /\ retried' = [retried EXCEPT ![r] = TRUE]
    /\ failed' = [failed EXCEPT ![r] = TRUE]
    /\ LET reopen == ~shouldCloseClient[r] /\ sharedRedisClient # NoHandle
       IN  /\ clients' = IF reopen
                         THEN WithNewClient(clients, Handle(r, 2),
                                            cfg[r].redisUrl, "shared")
                         ELSE clients
           /\ sharedRedisClient' = IF reopen THEN Handle(r, 2)
                                   ELSE sharedRedisClient
           /\ client' = [client EXCEPT ![r] = IF reopen THEN Handle(r, 2) ELSE @]
           /\ ops' = IF reopen THEN Count(Count(ops, r, "gets"), r, "opens")
                     ELSE Count(ops, r, "gets")
    /\ IF shouldCloseClient[r] THEN Await(r, "retryClose") ELSE Await(r, "retryGet")
    /\ UNCHANGED <<cacheInitialized, sharedRedisUrl, inits, store,
                   vInput, shouldCloseClient, patched, vFlags, header, vHandler,
                   thrown, outcome,
                   vManual, vParse>>

\* The first client.get rejects with ERR_REDIS_CONNECTION_CLOSED: the one
\* retry.  A per-request client is closed first (an await); on the shared
\* client the slot is refilled and the second get is issued at once.
MwGetConnectionClosed(r) ==
    /\ pc[r] = "get"
    /\ "closed" \in StoreOutcomes(client[r])
    /\ ~retried[r]
    /\ retried' = [retried EXCEPT ![r] = TRUE]
    /\ failed' = [failed EXCEPT ![r] = TRUE]
    /\ LET reopen == ~shouldCloseClient[r] /\ SharedMatches(cfg[r].redisUrl)
       IN  /\ clients' = IF reopen
                         THEN WithNewClient(clients, Handle(r, 2),
                                            cfg[r].redisUrl, "shared")
                         ELSE clients
           /\ sharedRedisClient' = IF reopen THEN Handle(r, 2)
                                   ELSE sharedRedisClient
           /\ client' = [client EXCEPT ![r] = IF reopen THEN Handle(r, 2) ELSE @]
           /\ ops' = IF reopen THEN Count(Count(ops, r, "gets"), r, "opens")
                     ELSE Count(ops, r, "gets")
    /\ IF shouldCloseClient[r] THEN Await(r, "retryClose") ELSE Await(r, "retryGet")
    /\ UNCHANGED <<cacheInitialized, sharedRedisUrl, inits, store,
                   vInput, shouldCloseClient, patched, vFlags, header, vHandler,
                   thrown, outcome,
                   vManual, vParse>>

\* MwGetError taking the retry whatever the error was.
MwGetErrorRetries(r) ==
    /\ pc[r] = "get"
    /\ "other" \in StoreOutcomes(client[r])
    /\ failed' = [failed EXCEPT ![r] = TRUE]
    /\ Await(r, "retryGet")
    /\ ops' = Count(ops, r, "gets")
    /\ UNCHANGED <<cacheInitialized, vShared, clients, store, vInput,
                   client, shouldCloseClient, patched, vFlags, retried, header,
                   vHandler, thrown, outcome, vManual, vParse>>

\* The first client.get rejects with another error: no retry.
MwGetError(r) ==
    /\ pc[r] = "get"
    /\ "other" \in StoreOutcomes(client[r])
    /\ failed' = [failed EXCEPT ![r] = TRUE]
    /\ LookupFailed(r)
    /\ ops' = Count(ops, r, "gets")
    /\ UNCHANGED <<cacheInitialized, vShared, clients, store, vInput,
                   client, shouldCloseClient, patched, retried, vHandler, thrown,
                   vManual, vParse>>

\* `try { await client.close() } catch {}` of the retry, then the new
\* per-request client and the second get.
MwRetryClose(r, closeOk) ==
    /\ pc[r] = "retryClose"
    /\ clients' = WithNewClient(WithClose(clients, client[r], r),
                                Handle(r, 2), cfg[r].redisUrl, r)
    /\ client' = [client EXCEPT ![r] = Handle(r, 2)]
    /\ ops' = Count(Count(ops, r, "closes"), r, "opens")
    /\ failed' = [failed EXCEPT ![r] = @ \/ ~closeOk]
    /\ Await(r, "retryGet")
    /\ UNCHANGED <<cacheInitialized, vShared, store, vInput,
                   shouldCloseClient, patched, vFlags, retried, header,
                   vHandler, thrown, outcome,
                   vManual, vParse>>

\* The second client.get resolves.
MwRetryGetOk(r) ==
    /\ pc[r] = "retryGet"
    /\ "ok" \in StoreOutcomes(client[r])
    /\ LookupDone(r, store[clients[client[r]].url][CacheKey(r)].value)
    /\ ops' = Count(ops, r, "gets")
    /\ UNCHANGED <<cacheInitialized, vShared, clients, store, vInput,
                   client, shouldCloseClient, patched, retried, vHandler,
                   failed, thrown,
                   vManual, vParse>>

\* MwRetryGetError with the rejection escaping the middleware.
MwRetryGetErrorThrows(r) ==
    /\ pc[r] = "retryGet"
    /\ StoreOutcomes(client[r]) \cap {"closed", "other"} # {}
    /\ pc' = [pc EXCEPT ![r] = "thrown"]
    /\ thrown' = [thrown EXCEPT ![r] = TRUE]
    /\ ops' = Count(ops, r, "gets")
    /\ UNCHANGED <<cacheInitialized, vShared, clients, store, vInput,
                   client, shouldCloseClient, patched, vFlags, retried, header,
                   vHandler, nextCalls, failed, outcome,
                   vManual, vParse>>

\* The second client.get rejects, with any error: give up, skip the cache.
MwRetryGetError(r) ==
    /\ pc[r] = "retryGet"
    /\ StoreOutcomes(client[r]) \cap {"closed", "other"} # {}
    /\ LookupFailed(r)
    /\ ops' = Count(ops, r, "gets")
    /\ UNCHANGED <<cacheInitialized, vShared, clients, store, vInput,
                   client, shouldCloseClient, patched, retried, vHandler,
                   failed, thrown,
                   vManual, vParse>>

\* `try { await client.close() } catch {}` after the lookup failed, or after
\* a hit, on a per-request client; then return next().
MwCloseAndNext(r, closeOk) ==
    /\ pc[r] \in {"failClose", "hitClose"}
    /\ clients' = WithClose(clients, client[r], r)
    /\ ops' = Count(ops, r, "closes")
    /\ failed' = [failed EXCEPT ![r] = @ \/ ~closeOk]
    /\ CallNext(r)
    /\ UNCHANGED <<cacheInitialized, vShared, store, vInput, client,
                   shouldCloseClient, patched, vFlags, retried, header,
                   vHandler, thrown, outcome,
                   vManual, vParse>>

(***************************************************************************)
(* The downstream handler: it runs once next() is called, and may call     *)
(* res.json(body) and .cache() on what res.json returned                   *)
(***************************************************************************)

\* EmittedValue with the handler's body always passed on.
EmittedValueOfBody(r, body) == body

\* What the original res.json receives: the patched res.json passes the
\* cached value on a hit, and the handler's body otherwise.
EmittedValue(r, body) ==
    IF patched[r] /\ cacheHit[r] THEN cacheHitValue[r] ELSE body

\* The .cache() of the response res.json returns: a no-op on a hit ("hit"),
\* the deferred write otherwise ("live"); the unpatched res.json gives none.
ResponseKind(r) ==
    IF ~patched[r] THEN "plain" ELSE IF cacheHit[r] THEN "hit" ELSE "live"

\* ResJson writing the body to the store itself, as the first middleware
\* of the repository did.
ResJsonAutoCache(r, body) ==
    /\ pc[r] = "next"
    /\ Len(responses[r]) < MaxJsonCalls
    /\ responses' = [responses EXCEPT ![r] =
          Append(@, [emitted |-> EmittedValue(r, body), body |-> body,
                     kind |-> ResponseKind(r)])]
    /\ store' = IF patched[r] /\ ~cacheHit[r]
                THEN [store EXCEPT ![cfg[r].redisUrl][CacheKey(r)] =
                         [value |-> JsonStringify(body), ttl |-> -1]]
                ELSE store
    /\ UNCHANGED <<cacheInitialized, vShared, clients, pc,
                   vInput, client, shouldCloseClient, patched, vFlags, retried,
                   header, hookPc, hookResp, durationSeconds, nextCalls, ops,
                   failed, thrown, outcome, cacheReturned,
                   vManual, vParse>>

\* res.json(body), called by the handler.
ResJson(r, body) ==
    /\ pc[r] = "next"
    /\ Len(responses[r]) < MaxJsonCalls
    /\ responses' = [responses EXCEPT ![r] =
          Append(@, [emitted |-> EmittedValue(r, body), body |-> body,
                     kind |-> ResponseKind(r)])]
    /\ UNCHANGED <<cacheInitialized, vShared, clients, store, pc,
                   vInput, client, shouldCloseClient, patched, vFlags, retried,
                   header, hookPc, hookResp, durationSeconds, nextCalls, ops,
                   failed, thrown, outcome, cacheReturned,
                   vManual, vParse>>

\* NoOpCommit with no guard at all.
NoOpCommitNever(r, i) == FALSE

\* NoOpCommit without the alreadyCached guard.
NoOpCommitHitOnly(r, i) == responses[r][i].kind = "hit"

\* The .cache() of response i does nothing but return the response.
NoOpCommit(r, i) == responses[r][i].kind = "hit" \/ alreadyCached[r]

\* response.cache(), called by the handler on response i, up to its first
\* await: either the no-op, or alreadyCached is set, durationSeconds is
\* computed and client.set is issued.
CacheCall(r, i) ==
    /\ pc[r] = "next"
    /\ i \in DOMAIN responses[r]
    /\ responses[r][i].kind # "plain"
    /\ IF NoOpCommit(r, i)
       THEN /\ cacheReturned' = [cacheReturned EXCEPT ![r] = i]
            /\ UNCHANGED <<alreadyCached, hookPc, hookResp, durationSeconds>>
       ELSE /\ alreadyCached' = [alreadyCached EXCEPT ![r] = TRUE]
            /\ hookPc' = [hookPc EXCEPT ![r] = "set"]
            /\ hookResp' = [hookResp EXCEPT ![r] = i]
            /\ durationSeconds' = [durationSeconds EXCEPT ![r] =
                                      DurationSecondsOf(conf[r])]
            /\ UNCHANGED cacheReturned
    /\ UNCHANGED <<cacheInitialized, vShared, clients, store, pc,
                   vInput, client, shouldCloseClient, patched, cacheHit,
                   cacheHitValue, cached, retried, header, responses,
                   nextCalls, ops, failed, thrown, outcome,
                   vManual, vParse>>

\* After the try/catch around set and expire: a per-request client is closed
\* (an await), then the header is set and the response returned.
HookRelease(r) ==
    IF shouldCloseClient[r]
    THEN /\ hookPc' = [hookPc EXCEPT ![r] = "close"]
         /\ UNCHANGED <<header, cacheReturned>>
    ELSE /\ hookPc' = [hookPc EXCEPT ![r] = "done"]
         /\ header' = [header EXCEPT ![r] = "MISS"]
         /\ cacheReturned' = [cacheReturned EXCEPT ![r] = hookResp[r]]

\* await client.set(cacheKey, JSON.stringify(body)) resolves.
HookSetOk(r) ==
    /\ hookPc[r] = "set"
    /\ "ok" \in StoreOutcomes(client[r])
    /\ store' = [store EXCEPT ![clients[client[r]].url][CacheKey(r)] =
                    [value |-> JsonStringify(responses[r][hookResp[r]].body),
                     ttl |-> -1]]
    /\ hookPc' = [hookPc EXCEPT ![r] = "expire"]
    /\ ops' = Count(ops, r, "sets")
    /\ UNCHANGED <<cacheInitialized, vShared, clients, pc, vInput,
                   client, shouldCloseClient, patched, vFlags, retried, header,
                   responses, hookResp, durationSeconds, nextCalls, failed,
                   thrown, outcome, cacheReturned,
                   vManual, vParse>>

\* await client.set rejects: caught, expire is skipped.
HookSetError(r) ==
    /\ hookPc[r] = "set"
    /\ StoreOutcomes(client[r]) \cap {"closed", "other"} # {}
    /\ failed' = [failed EXCEPT ![r] = TRUE]
    /\ HookRelease(r)
    /\ ops' = Count(ops, r, "sets")
    /\ UNCHANGED <<cacheInitialized, vShared, clients, store, pc,
                   vInput, client, shouldCloseClient, patched, vFlags, retried,
                   responses, hookResp, durationSeconds, nextCalls, thrown, outcome,
                   vManual, vParse>>

\* await client.expire(cacheKey, durationSeconds) resolves.
HookExpireOk(r) ==
    /\ hookPc[r] = "expire"
    /\ "ok" \in StoreOutcomes(client[r])
    /\ store' = [store EXCEPT ![clients[client[r]].url][CacheKey(r)].ttl =
                    IF store[clients[client[r]].url][CacheKey(r)].value = <<>>
                    THEN @ ELSE durationSeconds[r]]
    /\ HookRelease(r)
    /\ ops' = Count(ops, r, "expires")
    /\ UNCHANGED <<cacheInitialized, vShared, clients, pc, vInput,
                   client, shouldCloseClient, patched, vFlags, retried,
                   responses, hookResp, durationSeconds, nextCalls, failed,
                   thrown, outcome,
                   vManual, vParse>>

\* await client.expire rejects: caught.
HookExpireError(r) ==
    /\ hookPc[r] = "expire"
    /\ StoreOutcomes(client[r]) \cap {"closed", "other"} # {}
    /\ failed' = [failed EXCEPT ![r] = TRUE]
    /\ HookRelease(r)
    /\ ops' = Count(ops, r, "expires")
    /\ UNCHANGED <<cacheInitialized, vShared, clients, store, pc,
                   vInput, client, shouldCloseClient, patched, vFlags, retried,
                   responses, hookResp, durationSeconds, nextCalls, thrown, outcome,
                   vManual, vParse>>

\* `try { await client.close() } catch {}` of .cache(), then the MISS header.
HookClose(r, closeOk) ==
    /\ hookPc[r] = "close"
    /\ clients' = WithClose(clients, client[r], r)
    /\ hookPc' = [hookPc EXCEPT ![r] = "done"]
    /\ header' = [header EXCEPT ![r] = "MISS"]
    /\ cacheReturned' = [cacheReturned EXCEPT ![r] = hookResp[r]]
    /\ ops' = Count(ops, r, "closes")
    /\ failed' = [failed EXCEPT ![r] = @ \/ ~closeOk]
    /\ UNCHANGED <<cacheInitialized, vShared, store, pc, vInput,
                   client, shouldCloseClient, patched, vFlags, retried,
                   responses, hookResp, durationSeconds, nextCalls, thrown, outcome,
                   vManual, vParse>>

(***************************************************************************)
(* initializeCache                                                         *)
(***************************************************************************)

\* InitializeCache as first written: the previous shared client is left open.
InitializeCacheNoClose(c, closeOk) ==
    /\ inits < MaxInits
    /\ LET throws == ~SafeParseSuccess(c) \/ c.redisUrl = ""
           same == ~throws /\ SharedMatches(c.redisUrl)
           replace == ~throws /\ ~same
       IN  /\ clients' =
                 IF replace
                 THEN WithNewClient(clients, Handle("init", inits + 1),
                                    c.redisUrl, "shared")
                 ELSE clients
           /\ sharedRedisClient' = IF replace THEN Handle("init", inits + 1)
                                   ELSE sharedRedisClient
           /\ sharedRedisUrl' = IF replace THEN c.redisUrl ELSE sharedRedisUrl
           /\ cacheInitialized' = IF replace THEN TRUE ELSE cacheInitialized
           /\ inits' = IF replace THEN inits + 1 ELSE inits
    /\ UNCHANGED <<store, pc, vInput, client, shouldCloseClient,
                   patched, vFlags, retried, header, vHandler, nextCalls, ops,
                   failed, thrown, outcome,
                   vManual, vParse>>

\* initializeCache(): throws on an invalid config (nothing changes), returns
\* at once when the shared client is for the same URL, and otherwise closes
\* the previous shared client, if any, and puts a new one in the slot.
InitializeCache(c, closeOk) ==
    /\ inits < MaxInits
    /\ LET throws == ~SafeParseSuccess(c) \/ c.redisUrl = ""
           same == ~throws /\ SharedMatches(c.redisUrl)
           replace == ~throws /\ ~same
           closeOld == /\ replace
                       /\ sharedRedisClient # NoHandle
                       /\ sharedRedisUrl # Null
                       /\ sharedRedisUrl # c.redisUrl
       IN  /\ clients' =
                 IF replace
                 THEN WithNewClient(
                        IF closeOld
                        THEN WithClose(clients, sharedRedisClient, "init")
                        ELSE clients,
                        Handle("init", inits + 1), c.redisUrl, "shared")
                 ELSE clients
           /\ sharedRedisClient' = IF replace THEN Handle("init", inits + 1)
                                   ELSE sharedRedisClient
           /\ sharedRedisUrl' = IF replace THEN c.redisUrl ELSE sharedRedisUrl
           /\ cacheInitialized' = IF replace THEN TRUE ELSE cacheInitialized
           /\ inits' = IF replace THEN inits + 1 ELSE inits
    /\ UNCHANGED <<store, pc, vInput, client, shouldCloseClient,
                   patched, vFlags, retried, header, vHandler, nextCalls, ops,
                   failed, thrown, outcome,
                   vManual, vParse>>

(***************************************************************************)
(* setCache: the manual write a handler may call                           *)
(***************************************************************************)

\* setCache(req, res, conf, body) up to its first await: a silent return on
\* an invalid config or an empty URL; otherwise the client is chosen (the
\* shared one, or a new one that is never closed), durationSeconds is
\* computed and client.set is issued.
SetCache(r, cf, c, body) ==
    /\ pc[r] = "next"
    /\ manualPc[r] = "idle"
    /\ LET skip == ~SafeParseSuccess(c) \/ c.redisUrl = ""
           fresh == ~skip /\ ~SharedMatches(c.redisUrl)
       IN  /\ manualPc' = [manualPc EXCEPT ![r] = IF skip THEN "returned" ELSE "set"]
           /\ clients' = IF fresh
                         THEN WithNewClient(clients, Handle(r, 3), c.redisUrl, r)
                         ELSE clients
           /\ manualUrl' = [manualUrl EXCEPT ![r] = IF skip THEN @ ELSE c.redisUrl]
           /\ manualClient' = [manualClient EXCEPT ![r] =
                                  IF skip THEN @
                                  ELSE IF fresh THEN Handle(r, 3)
                                  ELSE sharedRedisClient]
           /\ ops' = IF fresh THEN Count(ops, r, "opens") ELSE ops
           /\ manualBody' = [manualBody EXCEPT ![r] = IF skip THEN @ ELSE body]
           /\ manualSeconds' = [manualSeconds EXCEPT ![r] =
                                   IF skip THEN @ ELSE DurationSecondsOf(cf)]
    /\ UNCHANGED <<cacheInitialized, vShared, store, pc, vInput, client,
                   shouldCloseClient, patched, vFlags, retried, header,
                   vHandler, nextCalls, failed, thrown, outcome, vParse>>

\* await client.set(cacheKey, JSON.stringify(body)) of setCache resolves.
SetCacheSetOk(r) ==
    /\ manualPc[r] = "set"
    /\ "ok" \in StoreOutcomes(manualClient[r])
    /\ store' = [store EXCEPT ![clients[manualClient[r]].url][CacheKey(r)] =
                    [value |-> JsonStringify(manualBody[r]), ttl |-> -1]]
    /\ manualPc' = [manualPc EXCEPT ![r] = "expire"]
    /\ ops' = Count(ops, r, "sets")
    /\ UNCHANGED <<cacheInitialized, vShared, clients, pc, vInput, client,
                   shouldCloseClient, patched, vFlags, retried, header,
                   vHandler, nextCalls, failed, thrown, outcome, manualUrl,
                   manualClient, manualBody, manualSeconds, vParse>>

\* await client.set of setCache rejects: nothing catches it, the promise
\* setCache returned rejects.
SetCacheSetError(r) ==
    /\ manualPc[r] = "set"
    /\ StoreOutcomes(manualClient[r]) \cap {"closed", "other"} # {}
    /\ manualPc' = [manualPc EXCEPT ![r] = "thrown"]
    /\ ops' = Count(ops, r, "sets")
    /\ failed' = [failed EXCEPT ![r] = TRUE]
    /\ UNCHANGED <<cacheInitialized, vShared, clients, store, pc, vInput,
                   client, shouldCloseClient, patched, vFlags, retried, header,
                   vHandler, nextCalls, thrown, outcome, manualUrl,
                   manualClient, manualBody, manualSeconds, vParse>>

\* await client.expire(cacheKey, durationSeconds) of setCache resolves; the
\* MISS header is set and setCache returns.
SetCacheExpireOk(r) ==
    /\ manualPc[r] = "expire"
    /\ "ok" \in StoreOutcomes(manualClient[r])
    /\ store' = [store EXCEPT ![clients[manualClient[r]].url][CacheKey(r)].ttl =
                    IF store[clients[manualClient[r]].url][CacheKey(r)].value = <<>>
                    THEN @ ELSE manualSeconds[r]]
    /\ header' = [header EXCEPT ![r] = "MISS"]
    /\ manualPc' = [manualPc EXCEPT ![r] = "returned"]
    /\ ops' = Count(ops, r, "expires")
    /\ UNCHANGED <<cacheInitialized, vShared, clients, pc, vInput, client,
                   shouldCloseClient, patched, vFlags, retried, vHandler,
                   nextCalls, failed, thrown, outcome, manualUrl,
                   manualClient, manualBody, manualSeconds, vParse>>

\* await client.expire of setCache rejects: the promise rejects.
SetCacheExpireError(r) ==
    /\ manualPc[r] = "expire"
    /\ StoreOutcomes(manualClient[r]) \cap {"closed", "other"} # {}
    /\ manualPc' = [manualPc EXCEPT ![r] = "thrown"]
    /\ ops' = Count(ops, r, "expires")
    /\ failed' = [failed EXCEPT ![r] = TRUE]
    /\ UNCHANGED <<cacheInitialized, vShared, clients, store, pc, vInput,
                   client, shouldCloseClient, patched, vFlags, retried, header,
                   vHandler, nextCalls, thrown, outcome, manualUrl,
                   manualClient, manualBody, manualSeconds, vParse>>

\* A request reaches the middleware.  The requests are interchangeable: r2
\* names the one that enters second.
Enter(r, url, cf, c) ==
    /\ r = "r2" => pc["r1"] # "start"
    /\ MwStart(r, url, cf, c)

\* One step of the system.  Requests R enter the middleware with a URL of U,
\* a per-route conf of CF and, read from the registry, a config of CG; the
\* handler of request r passes bodies of B[r] to res.json; the application
\* calls initializeCache with a config of IG in the registry.  (The registry
\* is the application's: what Config.get returns at each read is an input.)
Step(R, U, CF, CG, IG, B) ==
    \/ \E r \in R, url \in U, cf \in CF, c \in CG : Enter(r, url, cf, c)
    \/ \E r \in R : MwGetOk(r)
    \/ \E r \in R : MwGetConnectionClosed(r)
    \/ \E r \in R : MwGetError(r)
    \/ \E r \in R, closeOk \in BOOLEAN : MwRetryClose(r, closeOk)
    \/ \E r \in R : MwRetryGetOk(r)
    \/ \E r \in R : MwRetryGetError(r)
    \/ \E r \in R, closeOk \in BOOLEAN : MwCloseAndNext(r, closeOk)
    \/ \E r \in R : \E body \in B[r] : ResJson(r, body)
    \/ \E r \in R, i \in 1..MaxJsonCalls : CacheCall(r, i)
    \/ \E r \in R : HookSetOk(r)
    \/ \E r \in R : HookSetError(r)
    \/ \E r \in R : HookExpireOk(r)
    \/ \E r \in R : HookExpireError(r)
    \/ \E r \in R, closeOk \in BOOLEAN : HookClose(r, closeOk)
    \/ \E c \in IG, closeOk \in BOOLEAN : InitializeCache(c, closeOk)

\* One request, over every input.
Next ==
    Step({"r1"}, RequestUrls, Confs, ConfigValues, ConfigValues,
         [r \in Requests |-> Bodies])

Spec == Init /\ [][Next]_vars

\* Two requests in flight at once for the same URL under the same config, the
\* first answering b1 and the second b2, while initializeCache runs with
\* either store URL.  r2 is the request that enters second.
ConcConfigs ==
    {c \in ConfigValues : SafeParseSuccess(c) /\ c.enabled /\ c.excludedPaths = <<>>}
ConcConfs == {Conf(TRUE, <<>>, Dur1h30m)}
NextConc ==
    Step(Requests, {UrlA}, ConcConfs, {Cfg("redis://a", TRUE, <<>>, TRUE)},
         ConcConfigs, [r \in Requests |-> IF r = "r1" THEN {"b1"} ELSE {"b2"}])

\* The store starts empty: a hit is what an earlier commit left.
InitConc == InitWith({<<>>}) /\ NoParse

SpecConc == InitConc /\ [][NextConc]_vars

\* One request whose handler may also call setCache, with a config read of
\* its own and a body of its own.
ManualConfigs ==
    { Cfg("redis://a", TRUE, <<>>, TRUE),
      Cfg("redis://a", FALSE, <<>>, TRUE),
      Cfg("", TRUE, <<>>, TRUE),
      Cfg("redis://a", TRUE, <<>>, FALSE) }
ManualConfs == {Conf(TRUE, <<>>, Dur45Sec), Conf(TRUE, <<>>, NoDuration)}
NextManual ==
    \/ Step({"r1"}, {UrlA}, {Conf(TRUE, <<>>, Dur1h30m)},
            {Cfg("redis://a", TRUE, <<>>, TRUE), Cfg("redis://a", FALSE, <<>>, TRUE)},
            {Cfg("redis://a", TRUE, <<>>, TRUE), Cfg("redis://b", TRUE, <<>>, TRUE)},
            [r \in Requests |-> {"b1"}])
    \/ \E cf \in ManualConfs, c \in ManualConfigs : SetCache("r1", cf, c, "b2")
    \/ SetCacheSetOk("r1")
    \/ SetCacheSetError("r1")
    \/ SetCacheExpireOk("r1")
    \/ SetCacheExpireError("r1")

InitManual == InitWith({<<>>}) /\ NoParse

SpecManual == InitManual /\ [][NextManual]_vars

\* parseDuration on its own: it is given two well-formed duration strings
\* and their concatenation.  A well-formed string is one to MaxTokens
\* <integer><unit> tokens, the unit being any alias of the regex, in lower
\* case or, for a few, in upper or mixed case.
MaxTokens == 1
DurationNumbers == {<<"2">>, <<"1", "3">>}
DurationTokens ==
    {n \o UnitAlternatives[a] : n \in DurationNumbers,
                                a \in 1..Len(UnitAlternatives)}
        \cup {<<"3", "M", "O">>, <<"0", "5", "W", "e", "e", "k", "s">>,
              <<"1", "H">>}
RECURSIVE WellFormed(_)
WellFormed(n) ==
    IF n = 0 THEN {<<>>}
    ELSE {s \o t : s \in WellFormed(n - 1), t \in DurationTokens}
            \cup (WellFormed(n - 1) \ {<<>>})

InitParse ==
    /\ InitWith({<<>>})
    /\ parseA \in WellFormed(MaxTokens)
    /\ parseB \in DurationTokens
    /\ parsed = <<>>

\* parseDuration(A), parseDuration(B) and parseDuration(A + B) are computed.
ParseDurations ==
    /\ parsed = <<>>
    /\ parsed' = << [a |-> parseDuration(parseA),
                     b |-> parseDuration(parseB),
                     ab |-> parseDuration(parseA \o parseB)] >>
    /\ UNCHANGED <<cacheInitialized, vShared, clients, store, pc, vInput,
                   client, shouldCloseClient, patched, vFlags, retried, header,
                   vHandler, nextCalls, ops, failed, thrown, outcome, vManual,
                   parseA, parseB>>

NextParse == ParseDurations

SpecParse == InitParse /\ [][NextParse]_vars

\* parseDuration on any text: every string of at most MaxLen characters
\* over digits, unit letters, a letter of no unit and the blank, and the
\* inputs the documentation names.
MaxLen == 4
ScanChars == {"1", "5", "m", "o", "s", "x", " "}
RECURSIVE AnyStrings(_)
AnyStrings(n) ==
    IF n = 0 THEN {<<>>}
    ELSE AnyStrings(n - 1)
            \cup {s \o <<c>> : s \in AnyStrings(n - 1), c \in ScanChars}
NamedInputs ==
    { <<"g", "a", "r", "b", "a", "g", "e">>, <<"5", "x">>, <<"1", "h">>,
      <<"2", "d">>, <<"1", "w", "2", "d", "3", "h">>,
      <<"1", "m", "o", "n", "t", "h">>, <<"3", "d", "2", "h">>,
      <<"4", "5", "m">>, <<"5", "0", "0", "m", "s">>,
      <<"1", "2", " ", "5", "S", "e", "c">>, <<"2", "\t", "H", "o", "u", "r", "s">> }

InitParseAny ==
    /\ InitWith({<<>>})
    /\ parseA \in AnyStrings(MaxLen) \cup NamedInputs
    /\ parseB = <<>>
    /\ parsed = <<>>

SpecParseAny == InitParseAny /\ [][NextParse]_vars

(***************************************************************************)
(* Properties                                                              *)
(***************************************************************************)

\* C1: when the stored value for the request's key is present and parses, the
\* middleware answers itself and never invokes the downstream handler.
C1_HitNeverCallsNext ==
    \A r \in Requests : outcome[r] = "hit" => nextCalls[r] = 0

\* C2: on a hit every body the response emits is the parsed stored value,
\* whatever the handler passed to res.json, and the X-BREEZEAPI-CACHE header
\* is HIT from the lookup on, .cache() calls included.
C2_HitEmitsStoredValue ==
    \A r \in Requests :
        outcome[r] = "hit" =>
            /\ header[r] = "HIT"
            /\ cached[r] = store[cfg[r].redisUrl][reqUrl[r]].value
            /\ \A i \in DOMAIN responses[r] :
                  responses[r][i].emitted = JsonParse(cached[r])

\* A hit whose handler passed another body than the stored one to res.json
\* and called .cache() on the result.
C2_Witness ==
    \E r \in Requests :
        /\ outcome[r] = "hit"
        /\ Len(responses[r]) = 1
        /\ responses[r][1].body # JsonParse(cached[r])
        /\ cacheReturned[r] = 1

\* C3: a request that found a value under its key, parseable or not, never
\* issues a set or an expire: its .cache() never starts the write.
C3_NoWriteWhenPresent ==
    \A r \in Requests :
        outcome[r] \in {"hit", "corrupt"} =>
            /\ hookPc[r] = "idle"
            /\ ops[r].sets = 0
            /\ ops[r].expires = 0
            /\ store[cfg[r].redisUrl][reqUrl[r]].value = cached[r]

\* A request that found a value that is not JSON, and whose handler called
\* .cache().
C3_Witness ==
    \E r \in Requests :
        /\ outcome[r] = "corrupt"
        /\ cacheReturned[r] = 1
        /\ pc[r] = "next"

\* C4: on a miss (the lookup succeeded and found nothing) the downstream
\* handler is invoked, exactly once.
C4_MissCallsNextOnce ==
    \A r \in Requests :
        outcome[r] = "miss" => pc[r] = "next" /\ nextCalls[r] = 1

\* A miss whose handler has answered.
C4_Witness ==
    \E r \in Requests :
        /\ outcome[r] = "miss"
        /\ nextCalls[r] = 1
        /\ Len(responses[r]) = 1
        /\ retried[r]

\* C5: once the .cache() of a miss has finished with every store operation
\* of the request successful, the store holds, under the request's key, the
\* serialization of the body passed to res.json, with the configured
\* duration in whole seconds as its TTL.
C5_CommitWritesBodyWithTtl ==
    \A r \in Requests :
        ( /\ outcome[r] = "miss"
          /\ hookPc[r] = "done"
          /\ ~failed[r]
          /\ conf[r].enabled
          /\ conf[r].cacheKey = <<>>
          /\ conf[r].duration.type = "string" ) =>
            LET entry == store[cfg[r].redisUrl][reqUrl[r]]
            IN  /\ entry.value = JsonStringify(responses[r][hookResp[r]].body)
                /\ entry.ttl = FloorSeconds(parseDuration(conf[r].duration.str))
                /\ conf[r].duration = Dur1h30m => entry.ttl = 5400
                /\ conf[r].duration = Dur45Sec => entry.ttl = 45

\* A finished commit under the duration "45 Sec" on a per-request client.
C5_Witness ==
    \E r \in Requests :
        /\ outcome[r] = "miss"
        /\ hookPc[r] = "done"
        /\ ~failed[r]
        /\ shouldCloseClient[r]
        /\ conf[r] = Conf(TRUE, <<>>, Dur45Sec)
        /\ store[cfg[r].redisUrl][reqUrl[r]] =
              [value |-> JsonStringify("b2"), ttl |-> 45]

\* C6: a miss whose handler never calls .cache() writes nothing: no set, no
\* expire, and the key stays without a value.
C6_NoCommitNoWrite ==
    \A r \in Requests :
        (outcome[r] = "miss" /\ hookPc[r] = "idle") =>
            /\ ops[r].sets = 0
            /\ ops[r].expires = 0
            /\ store[cfg[r].redisUrl][reqUrl[r]] = NoEntry

\* A miss whose handler has answered through res.json without .cache().
C6_Witness ==
    \E r \in Requests :
        /\ outcome[r] = "miss"
        /\ hookPc[r] = "idle"
        /\ Len(responses[r]) = 1
        /\ responses[r][1].kind = "live"

\* C7: a request issues at most one set, exactly one once .cache() has
\* started the write; .cache() calls after the first start nothing.
C7_AtMostOneWrite ==
    \A r \in Requests :
        LET issued == ops[r].sets + (IF hookPc[r] = "set" THEN 1 ELSE 0)
        IN  /\ issued <= 1
            /\ ops[r].expires <= 1
            /\ hookPc[r] # "idle" => issued = 1 /\ alreadyCached[r]

\* A further .cache() call returned while the write of the first was still
\* pending.
C7_Witness ==
    \E r \in Requests :
        /\ hookPc[r] = "expire"
        /\ ops[r].sets = 1
        /\ cacheReturned[r] = 1

\* C8: no store failure escapes.  The middleware is only ever waiting on the
\* store, with a continuation for whatever the store answers, or has handed
\* over to the downstream handler, which it does after a failed lookup too;
\* .cache() likewise only waits or has returned its response.
C8_StoreFailuresSwallowed ==
    \A r \in Requests :
        /\ ~thrown[r]
        /\ pc[r] \in {"start", "get", "retryClose", "retryGet", "failClose",
                      "hitClose", "next"}
        /\ pc[r] = "get" =>
              ENABLED (MwGetOk(r) \/ MwGetConnectionClosed(r) \/ MwGetError(r))
        /\ pc[r] = "retryClose" => ENABLED MwRetryClose(r, FALSE)
        /\ pc[r] = "retryGet" => ENABLED (MwRetryGetOk(r) \/ MwRetryGetError(r))
        /\ pc[r] = "failClose" => ENABLED MwCloseAndNext(r, FALSE)
        /\ pc[r] = "next" => nextCalls[r] = 1
        /\ outcome[r] = "failed" => pc[r] \in {"failClose", "next"}
        /\ hookPc[r] \in {"idle", "set", "expire", "close", "done"}
        /\ hookPc[r] = "set" => ENABLED (HookSetOk(r) \/ HookSetError(r))
        /\ hookPc[r] = "expire" => ENABLED (HookExpireOk(r) \/ HookExpireError(r))
        /\ hookPc[r] = "close" => ENABLED HookClose(r, FALSE)
        /\ hookPc[r] = "done" => cacheReturned[r] \in DOMAIN responses[r]

\* The lookup failed after its retry, the handler ran all the same, and its
\* .cache() has finished.
C8_Witness ==
    \E r \in Requests :
        /\ outcome[r] = "failed"
        /\ retried[r]
        /\ nextCalls[r] = 1
        /\ hookPc[r] = "done"
        /\ failed[r]

\* C9: a request under an invalid config, a disabled cache or an excluded
\* path goes straight to the downstream handler: no client, no store
\* operation, res.json left as it was.
C9_BypassTouchesNothing ==
    \A r \in Requests :
        ( /\ pc[r] # "start"
          /\ \/ ~cfg[r].shapeOk
             \/ cfg[r].redisUrl \notin StoreUrls
             \/ ~cfg[r].enabled
             \/ \E i \in 1..Len(cfg[r].excludedPaths) :
                   StartsWith(reqUrl[r], cfg[r].excludedPaths[i]) ) =>
            /\ pc[r] = "next"
            /\ nextCalls[r] = 1
            /\ ops[r] = NoOps
            /\ client[r] = NoHandle
            /\ ~patched[r]
            /\ \A i \in DOMAIN responses[r] :
                  /\ responses[r][i].kind = "plain"
                  /\ responses[r][i].emitted = responses[r][i].body

\* A request for /x/a under a valid config that excludes /x, answered by its
\* handler while the store holds nothing for it.
C9_Witness ==
    \E r \in Requests :
        /\ reqUrl[r] = UrlX
        /\ cfg[r] = Cfg("redis://a", TRUE, <<PrefixX>>, TRUE)
        /\ Len(responses[r]) = 1
        /\ sharedRedisClient # NoHandle

\* C10: a request closes only a client made for it alone; a client of the
\* shared slot is closed by initializeCache only.
C10_SharedClientNotClosedByRequests ==
    \A h \in DOMAIN clients :
        /\ \A by \in clients[h].closedBy \cap Requests : clients[h].owner = by
        /\ clients[h].owner = "shared" => clients[h].closedBy \subseteq {"init"}

\* One request has closed its own client while the other holds the open
\* shared client after a failed lookup on it.
C10_Witness ==
    \E r, q \in Requests :
        /\ r # q
        /\ client[r] \in DOMAIN clients
        /\ client[q] \in DOMAIN clients
        /\ clients[client[r]].closedBy = {r}
        /\ client[q] = sharedRedisClient
        /\ ~clients[client[q]].closed
        /\ outcome[q] = "failed"
        /\ pc[q] = "next"

\* C11: a lookup issues at most two gets, and a connection-closed rejection
\* of the first get triggers exactly one reconnect: the retried get runs on
\* a client constructed by the retry.
C11_OneReconnectOneRetry ==
    \A r \in Requests :
        /\ ops[r].gets + (IF pc[r] \in {"get", "retryGet"} THEN 1 ELSE 0) <= 2
        /\ ops[r].gets = 2 => retried[r]
        /\ (retried[r] /\ pc[r] \in {"retryGet", "failClose", "hitClose", "next"}) =>
              /\ client[r] = Handle(r, 2)
              /\ Handle(r, 2) \in DOMAIN clients

C14_CustomKeyIsTheCacheKey ==
    \A r \in Requests :
        LET key == IF conf[r].cacheKey = <<>> THEN reqUrl[r]
                   ELSE conf[r].cacheKey[1]
        IN  /\ outcome[r] \in {"hit", "corrupt"} =>
                  cached[r] = store[cfg[r].redisUrl][key].value
            /\ (outcome[r] = "miss" /\ hookPc[r] = "done" /\ ~failed[r]) =>
                  store[cfg[r].redisUrl][key].value =
                      JsonStringify(responses[r][hookResp[r]].body)

\* C15: a route without duration gets no TTL: every expire a commit has
\* issued ran under a conf whose duration is a string, with the seconds that
\* string parses to.
C15_TtlOnlyFromDuration ==
    \A r \in Requests :
        (hookPc[r] = "expire" \/ ops[r].expires > 0) =>
            /\ conf[r].duration.type = "string"
            /\ durationSeconds[r] =
                  FloorSeconds(parseDuration(conf[r].duration.str))

\* C16: a response that has been emitted and has no commit left to run (a
\* pass-through, a request that found a value, or a miss whose .cache() has
\* finished) carries the header X-BREEZEAPI-CACHE, with HIT or MISS.
C16_HeaderOnEveryPath ==
    \A r \in Requests :
        ( /\ responses[r] # <<>>
          /\ \/ outcome[r] \in {"pass", "hit", "corrupt"}
             \/ hookPc[r] = "done" ) =>
            header[r] \in {"HIT", "MISS"}

\* C17: a stored value that does not parse is a miss: the handler runs, the
\* header is not HIT, res.json emits the handler's body, and .cache() is the
\* live one.
C17_CorruptValueIsAMiss ==
    \A r \in Requests :
        outcome[r] = "corrupt" =>
            /\ pc[r] = "next"
            /\ nextCalls[r] = 1
            /\ header[r] # "HIT"
            /\ \A i \in DOMAIN responses[r] :
                  /\ responses[r][i].emitted = responses[r][i].body
                  /\ responses[r][i].kind = "live"

\* C19: a request through a route whose conf has enabled = false goes to the
\* downstream handler with no lookup and no write.
C19_RouteDisabledBypasses ==
    \A r \in Requests :
        (pc[r] # "start" /\ ~conf[r].enabled) =>
            /\ pc[r] = "next"
            /\ nextCalls[r] = 1
            /\ ops[r].gets = 0
            /\ ops[r].sets = 0
            /\ ops[r].expires = 0

\* C18: setCache never raises: the promise it returned does not reject when
\* its set or its expire fails; and a setCache that found the config invalid
\* or without a URL has chosen no client.
C18_ManualWriteNeverRaises ==
    \A r \in Requests :
        /\ manualPc[r] # "thrown"
        /\ (manualPc[r] = "returned" /\ manualBody[r] = Undefined) =>
              manualClient[r] = NoHandle

\* C20: for well-formed duration strings A and B, parseDuration(A + B) is
\* parseDuration(A) + parseDuration(B); "2h" + "13s" gives 7213 seconds and
\* "2m" + "13min", the unit repeated, 15 minutes.
C20_ParseAdditive ==
    parsed # <<>> =>
        /\ parsed[1].ab = MillisAdd(parsed[1].a, parsed[1].b)
        /\ parsed[1].ab.sec = parsed[1].a.sec + parsed[1].b.sec
        /\ parsed[1].ab.rem = 0
        /\ (parseA = <<"2", "h">> /\ parseB = <<"1", "3", "s">>) =>
              parsed[1].ab = [sec |-> 7213, rem |-> 0]
        /\ (parseA = <<"2", "m">> /\ parseB = <<"1", "3", "m", "i", "n">>) =>
              parsed[1].ab = [sec |-> 900, rem |-> 0]

\* The same unit twice, under two aliases: 2 minutes and 13 minutes.
C20_Witness ==
    /\ parsed # <<>>
    /\ parseA = <<"2", "m">>
    /\ parseB = <<"1", "3", "m", "i", "n">>
    /\ parsed[1].a = [sec |-> 120, rem |-> 0]
    /\ parsed[1].b = [sec |-> 780, rem |-> 0]
    /\ parsed[1].ab = [sec |-> 900, rem |-> 0]

\* C21: parseDuration is defined on every input and returns the sum, over
\* the runs of digits that a unit alias follows (blanks allowed between),
\* of the run's number times the unit's seconds: 2592000 for a month,
\* 604800 for a week, 86400 for a day, 3600 for an hour, 60 for a minute, 1
\* for a second.  Everything else adds nothing: "", "garbage" and "5x" give 0.
C21_ParseSumsRecognizedTokens ==
    parsed # <<>> =>
        LET in == parseA
            n == Len(in)
            low(i) == IF i <= n THEN ToLower(in[i]) ELSE ""
            runStart(i) == in[i] \in Digits /\ (i = 1 \/ in[i - 1] \notin Digits)
            runEnd(i) == CHOOSE e \in i + 1..n + 1 :
                            /\ \A k \in i..e - 1 : in[k] \in Digits
                            /\ e = n + 1 \/ in[e] \notin Digits
            unitAt(i) == CHOOSE u \in runEnd(i)..n + 1 :
                            /\ \A k \in runEnd(i)..u - 1 : in[k] \in Spaces
                            /\ u = n + 1 \/ in[u] \notin Spaces
            number(i) == LET e == runEnd(i)
                             pow[k \in 0..n] == IF k = 0 THEN 1 ELSE 10 * pow[k - 1]
                             sum[k \in i - 1..e - 1] ==
                                 IF k = i - 1 THEN 0
                                 ELSE sum[k - 1] + DigitVal(in[k]) * pow[e - 1 - k]
                         IN  sum[e - 1]
            factor(u) == IF low(u) = "m" /\ low(u + 1) = "o" THEN 2592000
                         ELSE IF low(u) = "w" THEN 604800
                         ELSE IF low(u) = "d" THEN 86400
                         ELSE IF low(u) = "h" THEN 3600
                         ELSE IF low(u) = "m" THEN 60
                         ELSE IF low(u) = "s" THEN 1
                         ELSE 0
            total[i \in 0..n] ==
                IF i = 0 THEN 0
                ELSE total[i - 1]
                     + (IF runStart(i) THEN number(i) * factor(unitAt(i)) ELSE 0)
        IN  /\ parsed[1].a = [sec |-> total[n], rem |-> 0]
            /\ in \in {<<>>, <<"g", "a", "r", "b", "a", "g", "e">>, <<"5", "x">>} =>
                  parsed[1].a = [sec |-> 0, rem |-> 0]
            /\ in = <<"1", "h">> => parsed[1].a.sec = 3600
            /\ in = <<"2", "d">> => parsed[1].a.sec = 172800
            /\ in = <<"1", "w", "2", "d", "3", "h">> =>
                  parsed[1].a.sec = (7 + 2) * 86400 + 3 * 3600
            /\ in = <<"1", "m", "o", "n", "t", "h">> => parsed[1].a.sec = 30 * 86400

\* A letter of no unit, then one token whose alias starts like the minute
\* aliases, has been parsed: 1 month.
C21_Witness ==
    /\ parsed # <<>>
    /\ parseA = <<"x", "1", "m", "o">>
    /\ parsed[1].a = [sec |-> 2592000, rem |-> 0]

\* C22: a first get that fails with an error other than connection closed
\* ends the lookup: the request has issued that one get, has constructed no
\* client beyond the one it entered with, and is closing that client or has
\* gone on to the downstream handler; a second get is only ever issued after
\* a connection-closed rejection.
C22_OnlyConnectionClosedRetries ==
    \A r \in Requests :
        /\ (outcome[r] = "failed" /\ ~retried[r]) =>
              /\ ops[r].gets = 1
              /\ ops[r].opens = (IF shouldCloseClient[r] THEN 1 ELSE 0)
              /\ Handle(r, 2) \notin DOMAIN clients
              /\ pc[r] \in {"failClose", "next"}
              /\ pc[r] = "next" => nextCalls[r] = 1
        /\ (pc[r] = "retryGet" \/ ops[r].gets = 2) => retried[r]

\* The first get of a request on its own client failed with another error;
\* the client was closed and the handler has answered.
C22_Witness ==
    \E r \in Requests :
        /\ outcome[r] = "failed"
        /\ ~retried[r]
        /\ shouldCloseClient[r]
        /\ clients[client[r]].closed
        /\ Len(responses[r]) = 1

\* C23: acquiring a connection, in the middleware and in setCache, yields the
\* shared handle exactly when a shared handle exists and its recorded URL
\* equals the configured URL, and then opens nothing; otherwise it opens a
\* new handle for the configured URL that belongs to the caller (the
\* middleware marks it for closing).  Neither case changes the shared slot.
C23_AcquireSharedIffSlotMatches ==
    [][\A r \in Requests :
          /\ (pc[r] = "start" /\ pc'[r] = "get") =>
                LET url == cfg'[r].redisUrl
                    h == client'[r]
                IN  /\ sharedRedisClient' = sharedRedisClient
                    /\ sharedRedisUrl' = sharedRedisUrl
                    /\ IF sharedRedisClient # NoHandle /\ sharedRedisUrl = url
                       THEN /\ h = sharedRedisClient
                            /\ ~shouldCloseClient'[r]
                            /\ clients' = clients
                       ELSE /\ h \notin DOMAIN clients
                            /\ DOMAIN clients' = DOMAIN clients \cup {h}
                            /\ clients'[h].url = url
                            /\ clients'[h].owner = r
                            /\ ~clients'[h].closed
                            /\ shouldCloseClient'[r]
          /\ (manualPc[r] = "idle" /\ manualPc'[r] = "set") =>
                LET url == manualUrl'[r]
                    h == manualClient'[r]
                IN  /\ sharedRedisClient' = sharedRedisClient
                    /\ sharedRedisUrl' = sharedRedisUrl
                    /\ IF sharedRedisClient # NoHandle /\ sharedRedisUrl = url
                       THEN /\ h = sharedRedisClient
                            /\ clients' = clients
                       ELSE /\ h \notin DOMAIN clients
                            /\ DOMAIN clients' = DOMAIN clients \cup {h}
                            /\ clients'[h].url = url
                            /\ clients'[h].owner = r
                            /\ ~clients'[h].closed]_vars

\* A setCache call that opened its own client although another URL's client
\* is in the shared slot, after the middleware of the same request did so too.
C23_Witness ==
    \E r \in Requests :
        /\ manualPc[r] = "set"
        /\ sharedRedisClient # NoHandle /\ sharedRedisUrl # manualUrl[r]
        /\ manualClient[r] = Handle(r, 3)
        /\ client[r] = Handle(r, 1)
        /\ clients[Handle(r, 3)].url = manualUrl[r]

\* C24: when the first get of a request that took the shared connection is
\* rejected with connection closed, the reconnect puts a newly opened handle
\* for the request's URL in the shared slot and the request retries on that
\* handle; a request that afterwards acquires the shared connection gets the
\* handle the slot then holds.
C24_SharedReconnectHealsSlot ==
    [][\A r \in Requests :
          /\ (pc[r] = "get" /\ pc'[r] = "retryGet" /\ ~shouldCloseClient[r]) =>
                /\ sharedRedisClient' \notin DOMAIN clients
                /\ sharedRedisClient' \in DOMAIN clients'
                /\ clients'[sharedRedisClient'].url = cfg[r].redisUrl
                /\ ~clients'[sharedRedisClient'].closed
                /\ client'[r] = sharedRedisClient'
          /\ (pc[r] = "start" /\ pc'[r] = "get" /\ ~shouldCloseClient'[r]) =>
                client'[r] = sharedRedisClient
      ]_vars

\* C25: in every request that passes the config checks res.json is wrapped
\* before the first store operation is issued, so whatever the lookup gives
\* (hit, miss, corrupt value, failure, failed retry) every res.json call of
\* the handler returns an object with a .cache() operation.
C25_PatchBeforeLookup ==
    \A r \in Requests :
        /\ (pc[r] \in {"get", "retryClose", "retryGet", "failClose", "hitClose"}
            \/ ops[r].gets > 0) => patched[r]
        /\ outcome[r] \in {"hit", "miss", "corrupt", "failed"} =>
              \A i \in DOMAIN responses[r] : responses[r][i].kind \in {"hit", "live"}

\* After a retry that failed too, the handler called res.json and then the
\* .cache() of the object it returned.
C25_Witness ==
    \E r \in Requests :
        /\ outcome[r] = "failed" /\ retried[r] /\ ops[r].gets = 2
        /\ Len(responses[r]) = 1
        /\ responses[r][1].kind = "live"
        /\ hookPc[r] = "set"

\* C26: once a request is finished (the middleware has returned, no deferred
\* write or setCache call is in flight, and no .cache() call can start a
\* write any more), every connection that was opened for that request alone
\* has been closed.
C26_ExclusiveClosedWhenFinished ==
    \A r \in Requests :
        ( /\ pc[r] = "next"
          /\ hookPc[r] \in {"idle", "done"}
          /\ hookPc[r] = "idle" => alreadyCached[r]
          /\ manualPc[r] \in {"idle", "returned", "thrown"} ) =>
            \A h \in DOMAIN clients : clients[h].owner = r => clients[h].closed

\* C27: no request issues a get, set or expire, or a further close, on a
\* handle that the same request has already closed.
C27_NoUseAfterOwnClose ==
    [][\A r \in Requests :
          LET storeOp == \/ ops'[r].gets # ops[r].gets
                         \/ ops'[r].sets # ops[r].sets
                         \/ ops'[r].expires # ops[r].expires
              closeOp == ops'[r].closes # ops[r].closes
              manual  == manualPc'[r] # manualPc[r]
          IN  /\ ((storeOp \/ closeOp) /\ ~manual) =>
                    r \notin clients[client[r]].closedBy
              /\ (storeOp /\ manual) =>
                    r \notin clients[manualClient[r]].closedBy
      ]_vars

\* C28: in every reachable state the shared client is present exactly when
\* the shared URL is present, and the client in the shared slot was opened
\* for the URL the slot records.
C28_SharedSlotConsistent ==
    /\ (sharedRedisClient # NoHandle) <=> (sharedRedisUrl # Null)
    /\ sharedRedisClient # NoHandle =>
          /\ sharedRedisClient \in DOMAIN clients
          /\ clients[sharedRedisClient].url = sharedRedisUrl

\* A request's reconnect has put its new client in the shared slot, after
\* initializeCache had replaced the slot's client once already, while the
\* other request holds a client that is no longer the shared one.
C28_Witness ==
    \E r \in Requests, q \in Requests :
        /\ r # q
        /\ sharedRedisClient = Handle(r, 2)
        /\ inits = 2
        /\ client[q] \in DOMAIN clients
        /\ client[q] # sharedRedisClient
        /\ ~shouldCloseClient[q]

====
